---- MODULE Spec2Model ----
(***************************************************************************)
(* Model of koofr_downloader.py: the script entry point and the function   *)
(* download_and_extract_media_from_koofr.  Text (URLs, archive entry names,*)
(* suffixes, paths) is modelled as sequences of one-character strings so   *)
(* that split, lower, endswith, lstrip, join and dirname are computed as   *)
(* the Python code computes them.                                          *)
(*                                                                         *)
(* A run starts at the script's entry point with the link and the          *)
(* media_extensions argument taken as inputs.  The network, the archive    *)
(* delivered and the faults of file I/O are chosen by the environment.     *)
(* The script may be run again after a completed run, on the disk that run *)
(* left, and the server then delivers the same archive.  Archive entry     *)
(* contents are told apart by the entry's position: entry i holds <<i>>.   *)
(***************************************************************************)
EXTENDS Integers, Sequences, FiniteSets, TLC

\* ------------------------------------------------------------------ bounds
\* Longest archive (number of entries) the server is taken to deliver.
MaxEntries == 3
\* Number of times the script is run against the same output folder.
MaxRuns == 2
\* Number of pieces a share URL is assembled from in the link-parsing check.
MaxPieces == 3

\* --------------------------------------------------------- text primitives
UpperChars == <<"A", "B", "C", "D", "E", "F", "G", "H", "I", "J", "K", "L", "M", "N", "O", "P", "Q", "R", "S", "T", "U", "V", "W", "X", "Y", "Z">>
LowerChars == <<"a", "b", "c", "d", "e", "f", "g", "h", "i", "j", "k", "l", "m", "n", "o", "p", "q", "r", "s", "t", "u", "v", "w", "x", "y", "z">>

\* str.lower() on one character
LowerChar(c) ==
    IF \E i \in 1..Len(UpperChars) : UpperChars[i] = c
    THEN LowerChars[CHOOSE i \in 1..Len(UpperChars) : UpperChars[i] = c]
    ELSE c

\* str.lower()
Lower(s) == [i \in 1..Len(s) |-> LowerChar(s[i])]

\* s[i:i+len(t)] == t   (1-based i)
OccursAt(s, t, i) ==
    /\ i >= 1
    /\ i + Len(t) - 1 <= Len(s)
    /\ SubSeq(s, i, i + Len(t) - 1) = t

\* str.find(t, from): the least position >= from where t occurs, 0 if none
Find(s, t, from) ==
    LET hits == {i \in from..Len(s) : OccursAt(s, t, i)}
    IN  IF hits = {} THEN 0 ELSE CHOOSE i \in hits : \A j \in hits : i <= j

\* t in s
Contains(s, t) == Find(s, t, 1) # 0

\* str.startswith / str.endswith
StartsWith(s, t) == OccursAt(s, t, 1)
EndsWith(s, t) == Len(t) <= Len(s) /\ SubSeq(s, Len(s) - Len(t) + 1, Len(s)) = t

\* str.split(sep): the parts between successive non-overlapping occurrences
\* of sep, scanning left to right
RECURSIVE Split(_, _)
Split(s, sep) ==
    LET i == Find(s, sep, 1)
    IN  IF i = 0 THEN <<s>>
        ELSE <<SubSeq(s, 1, i - 1)>> \o Split(SubSeq(s, i + Len(sep), Len(s)), sep)

\* str.lstrip(c) for a single character c
RECURSIVE LStrip(_, _)
LStrip(s, c) == IF s # <<>> /\ Head(s) = c THEN LStrip(Tail(s), c) ELSE s

\* str.rstrip(c) for a single character c
RECURSIVE RStrip(_, _)
RStrip(s, c) ==
    IF s # <<>> /\ s[Len(s)] = c THEN RStrip(SubSeq(s, 1, Len(s) - 1), c) ELSE s

\* the last position of character c in s, 0 if none (str.rfind + 1)
RFind(s, c) ==
    LET hits == {i \in 1..Len(s) : s[i] = c}
    IN  IF hits = {} THEN 0 ELSE CHOOSE i \in hits : \A j \in hits : j <= i

RECURSIVE Concat(_)
Concat(ss) == IF ss = <<>> THEN <<>> ELSE Head(ss) \o Concat(Tail(ss))

\* ------------------------------------------------------ program constants
\* line 108: the link pasted into the script
koofr_link == <<"h", "t", "t", "p", "s", ":", "/", "/", "a", "p", "p", ".", "k", "o", "o", "f", "r", ".", "n", "e", "t", "/", "l", "i", "n", "k", "s", "/", "c", "1", "f", "a", "b", "7", "4", "1", "-", "0", "e", "2", "3", "-", "4", "5", "1", "6", "-", "8", "f", "3", "0", "-", "1", "b", "c", "3", "1", "8", "1", "4", "a", "e", "a", "0", "?", "p", "a", "t", "h", "=", "%", "2", "F", "B", "r", "e", "a", "n", "n", "a", "%", "2", "0", "L", "y">>
\* line 110: the placeholder the script refuses to run with
Placeholder == <<"P", "A", "S", "T", "E", "_", "Y", "O", "U", "R", "_", "K", "O", "O", "F", "R", "_", "L", "I", "N", "K", "_", "H", "E", "R", "E">>
\* line 27
LinksMarker == <<"/", "l", "i", "n", "k", "s", "/">>
\* line 32
DefaultQuery == <<"p", "a", "t", "h", "=", "%", "2", "F">>
\* line 116
output_folder == <<"k", "o", "o", "f", "r", "_", "d", "o", "w", "n", "l", "o", "a", "d", "s">>
\* lines 19-20
DefaultExtensions ==
    <<<<".", "j", "p", "g">>,
      <<".", "j", "p", "e", "g">>,
      <<".", "p", "n", "g">>,
      <<".", "g", "i", "f">>,
      <<".", "b", "m", "p">>,
      <<".", "w", "e", "b", "p">>,
      <<".", "t", "i", "f", "f">>,
      <<".", "m", "p", "4">>,
      <<".", "m", "o", "v">>,
      <<".", "a", "v", "i">>,
      <<".", "m", "k", "v">>,
      <<".", "w", "e", "b", "m">>,
      <<".", "f", "l", "v">>,
      <<".", "w", "m", "v">>>>

\* ------------------------------------------------- urllib.parse.urlparse
Digits == {"0", "1", "2", "3", "4", "5", "6", "7", "8", "9"}
Letters == {UpperChars[i] : i \in 1..Len(UpperChars)} \cup {LowerChars[i] : i \in 1..Len(LowerChars)}
SchemeChars == Letters \cup Digits \cup {"+", "-", "."}
\* the schemes of this model that urllib lists in uses_params
UsesParams == {<<>>, <<"h", "t", "t", "p">>, <<"h", "t", "t", "p", "s">>}

\* urlsplit: the scheme is the text before the first ':' when it starts with
\* a letter and holds scheme characters only
SchemeEnd(url) ==
    LET i == Find(url, <<":">>, 1)
    IN  IF /\ i > 1
           /\ url[1] \in Letters
           /\ \A k \in 1..(i - 1) : url[k] \in SchemeChars
        THEN i ELSE 0

\* the least position >= from of any of the characters '/', '?', '#';
\* Len + 1 if none (urllib's _splitnetloc)
NetlocEnd(s, from) ==
    LET hits == {i \in from..Len(s) : s[i] \in {"/", "?", "#"}}
    IN  IF hits = {} THEN Len(s) + 1 ELSE CHOOSE i \in hits : \A j \in hits : i <= j

\* text before the first c, or all of s
Before(s, c) == LET i == Find(s, <<c>>, 1) IN IF i = 0 THEN s ELSE SubSeq(s, 1, i - 1)
\* text after the first c, or empty
After(s, c) == LET i == Find(s, <<c>>, 1) IN IF i = 0 THEN <<>> ELSE SubSeq(s, i + 1, Len(s))

\* urlparse's _splitparams: the path without the ';params' of its last segment
SplitParams(p) ==
    LET r == RFind(p, "/")
        i == Find(p, <<";">>, IF r = 0 THEN 1 ELSE r)
    IN  IF i = 0 THEN p ELSE SubSeq(p, 1, i - 1)

\* urlparse(url): [scheme, netloc-free rest split into path and query]
UrlParse(url) ==
    LET e      == SchemeEnd(url)
        scheme == IF e = 0 THEN <<>> ELSE Lower(SubSeq(url, 1, e - 1))
        r1     == IF e = 0 THEN url ELSE SubSeq(url, e + 1, Len(url))
        r2     == IF StartsWith(r1, <<"/", "/">>)
                  THEN SubSeq(r1, NetlocEnd(r1, 3), Len(r1)) ELSE r1
        r3     == Before(r2, "#")
        p      == Before(r3, "?")
    IN  [ scheme |-> scheme,
          path   |-> IF scheme \in UsesParams /\ Contains(p, <<";">>) THEN SplitParams(p) ELSE p,
          query  |-> After(r3, "?") ]

\* lines 27-28: path_parts = parsed_url.path.split('/links/')
PathParts(url) == Split(UrlParse(url).path, LinksMarker)
LinkFormatOk(url) == Len(PathParts(url)) >= 2

\* variant: the last part is taken (path_parts[-1])
LinkIdOf_LastPart(url) == Split(PathParts(url)[Len(PathParts(url))], <<"?">>)[1]

\* line 31: link_id = path_parts[1].split('?')[0]   (0-based in the source)
LinkIdOf(url) == Split(PathParts(url)[2], <<"?">>)[1]

\* line 32: query = parsed_url.query or 'path=%2F'
QueryOf(url) == LET q == UrlParse(url).query IN IF q = <<>> THEN DefaultQuery ELSE q

\* ------------------------------------------------------------ os.path
\* os.path.join(a, b) on POSIX
Join(a, b) ==
    IF StartsWith(b, <<"/">>) THEN b
    ELSE IF a = <<>> \/ EndsWith(a, <<"/">>) THEN a \o b
    ELSE a \o <<"/">> \o b

\* os.path.dirname(p) on POSIX
Dirname(p) ==
    LET head == SubSeq(p, 1, RFind(p, "/"))
    IN  IF head # <<>> /\ RStrip(head, "/") # <<>> THEN RStrip(head, "/") ELSE head

\* the working directory of the process, as a list of path components
Cwd == <<<<"w", "o", "r", "k">>>>

\* the location a path names: components applied to the root or to Cwd,
\* '' and '.' skipped, '..' moving to the parent
RECURSIVE Walk(_, _)
Walk(loc, comps) ==
    IF comps = <<>> THEN loc
    ELSE LET c == Head(comps)
         IN  IF c = <<>> \/ c = <<".">> THEN Walk(loc, Tail(comps))
             ELSE IF c = <<".", ".">>
                  THEN Walk(IF loc = <<>> THEN loc ELSE SubSeq(loc, 1, Len(loc) - 1), Tail(comps))
             ELSE Walk(Append(loc, c), Tail(comps))

Resolve(p) == Walk(IF StartsWith(p, <<"/">>) THEN <<>> ELSE Cwd, Split(p, <<"/">>))

\* loc lies strictly inside the tree rooted at root
Inside(loc, root) == Len(loc) > Len(root) /\ SubSeq(loc, 1, Len(root)) = root

OutputRoot == Resolve(output_folder)

\* ------------------------------------------------------- archive entries
\* ZipInfo.is_dir(): the entry name ends with '/'
IsDir(name) == EndsWith(name, <<"/">>)

\* variant: the name is compared as it is, without lower()
Matches_NoLower(name, exts) == \E k \in 1..Len(exts) : EndsWith(name, exts[k])

\* lines 85-86: any(filename_lower.endswith(ext) for ext in media_extensions)
Matches(name, exts) ==
    LET filename_lower == Lower(name)
    IN  \E k \in 1..Len(exts) : EndsWith(filename_lower, exts[k])

\* line 88: os.path.join(output_folder, file_info.filename.lstrip('/'))
ExtractPath(name) == Join(output_folder, LStrip(name, "/"))

\* line 89: os.makedirs(d, exist_ok=True): every directory along d exists
\* afterwards (a failure of the call is one of the Faults below)
RECURSIVE MakedirsFrom(_, _, _)
MakedirsFrom(comps, k, ds) ==
    IF k > Len(comps) THEN ds
    ELSE MakedirsFrom(comps, k + 1,
                      ds \cup {Walk(IF comps[1] = <<>> THEN <<>> ELSE Cwd, SubSeq(comps, 1, k))})

Makedirs(d, ds) == MakedirsFrom(Split(d, <<"/">>), 1, ds)

\* variant: the file is opened without truncating it (mode 'ab')
OpenForWrite_NoTruncate(fs, loc) == IF loc \in DOMAIN fs THEN fs ELSE (loc :> <<>>) @@ fs

\* line 91: open(extract_path, 'wb') creates the file or truncates it
OpenForWrite(fs, loc) == (loc :> <<>>) @@ fs

\* line 92: target.write(source.read()): the entry's bytes follow what the
\* open file holds (the bytes of entry i are modelled as <<i>>)
WriteAll(fs, loc, i) == (loc :> (fs[loc] \o <<i>>)) @@ fs

\* variant: the counter is not advanced
Increment_Forgotten(n) == n

\* line 95: total_extracted += 1
Increment(n) == n + 1

\* ------------------------------------------------------------ exceptions
\* variant: no except clause for BadZipFile
HandledAsCorrupt_Never(exc) == FALSE

\* lines 96-98: the except clause around the extraction loop handles
\* zipfile.BadZipFile only; anything else leaves the function
HandledAsCorrupt(exc) == exc = "BadZipFile"

\* lines 121-129 and the interpreter: SystemExit(1) passes both except
\* clauses and ends the process with status 1; KeyboardInterrupt and every
\* Exception are caught, a message is printed, and the script runs off its
\* end, which is status 0
ExitStatusOf(exc) == IF exc = "SystemExit" THEN 1 ELSE 0

\* what main prints for an exception reaching it
MainMessage(exc, msg) ==
    IF exc = "SystemExit" THEN msg
    ELSE IF exc = "KeyboardInterrupt" THEN "Cancelled by user."
    ELSE "Unexpected error"

\* ------------------------------------------------------------ metadata
\* lines 55-56: data.get('file', {}).get('name'); None is <<>>, a value v is <<v>>
BundleNameOf(data) == IF data.has_file /\ data.has_name THEN <<data.name>> ELSE <<>>

\* variant: only a missing name is refused (bundle_name is None)
Falsy_NoneOnly(opt) == opt = <<>>

\* line 57: not bundle_name
Falsy(opt) == opt = <<>> \/ opt[1] = ""

\* --------------------------------------------------------- environment
\* what the metadata endpoint can answer: status 0 stands for a failure at
\* network level (no response); json_ok tells whether the body parses
MetaResponses ==
    [status : {0, 403, 404, 500}, json_ok : {TRUE}, has_file : {FALSE},
     has_name : {FALSE}, name : {""}]
    \cup [status : {200}, json_ok : {FALSE}, has_file : {FALSE}, has_name : {FALSE}, name : {""}]
    \cup [status : {200}, json_ok : {TRUE}, has_file : {FALSE}, has_name : {FALSE}, name : {""}]
    \cup [status : {200}, json_ok : {TRUE}, has_file : {TRUE}, has_name : {FALSE}, name : {""}]
    \cup [status : {200}, json_ok : {TRUE}, has_file : {TRUE}, has_name : {TRUE}, name : {"", "Photos"}]

\* what the content endpoint can answer before the body is read
DownloadResponses == {0, 200, 404, 500}

\* entry names the server may put in the archive
NameA == <<"a", ".", "j", "p", "g">>
NameB == <<"b", ".", "t", "x", "t">>
NameC == <<"s", "u", "b", "/", "c", ".", "p", "n", "g">>
NameSub == <<"s", "u", "b", "/">>
NameUpper == <<"P", "H", "O", "T", "O", ".", "J", "P", "G">>
NameSlash == <<"/", "a", ".", "j", "p", "g">>
NameDotDot == <<".", ".", "/", "e", ".", "j", "p", "g">>
EntryNames == {NameA, NameB, NameC, NameSub, NameUpper, NameSlash, NameDotDot}

\* the archive of the round-trip scenario
ScenarioArchive == <<NameA, NameB, NameC, NameSub>>

Archives ==
    UNION {[1..n -> EntryNames] : n \in 0..MaxEntries} \cup {ScenarioArchive}

\* what can go wrong while one matching entry is extracted (lines 89-92)
Faults == {"none", "makedirs", "entry_header", "open_target", "entry_crc", "entry_data", "write"}

\* the values of the media_extensions argument: None, or a list
ExtArgs ==
    { [given |-> FALSE, list |-> <<>>],
      [given |-> TRUE, list |-> <<<<".", "J", "P", "G">>>>],
      [given |-> TRUE, list |-> <<<<".", "p", "n", "g">>, <<".", "t", "x", "t">>>>] }

\* the links the script is run with
UrlNoMarker == <<"h", "t", "t", "p", "s", ":", "/", "/", "a", "p", "p", ".", "k", "o", "o", "f", "r", ".", "n", "e", "t", "/", "s", "h", "a", "r", "e", "/", "a", "b", "c", "?", "p", "a", "t", "h", "=", "%", "2", "F">>
UrlPlaceholder == <<"h", "t", "t", "p", "s", ":", "/", "/", "a", "p", "p", ".", "k", "o", "o", "f", "r", ".", "n", "e", "t", "/", "l", "i", "n", "k", "s", "/", "P", "A", "S", "T", "E", "_", "Y", "O", "U", "R", "_", "K", "O", "O", "F", "R", "_", "L", "I", "N", "K", "_", "H", "E", "R", "E">>
Urls == {koofr_link, UrlNoMarker, UrlPlaceholder}

\* ------------------------------------------------------------------ state
VARIABLES
    link_url,          \* the link the script is run with (line 108)
    media_extensions,  \* the media_extensions argument
    pc,                \* where the run is
    run,               \* which run of the script this is
    link_id,           \* line 31
    query,             \* line 32
    meta,              \* the metadata response received, <<>> before
    bundle_name,       \* line 56
    archive,           \* z.infolist(): the entry names, in archive order
    idx,               \* the entry the loop of line 82 is at
    total_extracted,   \* line 79
    files,             \* regular files on disk: location -> content
    dirs,              \* directories on disk
    written,           \* entries of this run written in full, in order
    stages,            \* the stages this run has entered, in order
    exit_status,       \* <<>> while running, <<status>> once the process ended
    printed,           \* the last message of the run
    error,             \* the kind of failure that ended the run, "none" if none
    failed_at,         \* the entry whose extraction failed, 0 if none
    prev_archive,      \* the archive, files and count of the previous
    prev_files,        \*   completed run
    prev_count

vars == <<link_url, media_extensions, pc, run, link_id, query, meta, bundle_name,
          archive, idx, total_extracted, files, dirs, written, stages,
          exit_status, printed, error, failed_at, prev_archive, prev_files, prev_count>>

NoFiles == [loc \in {} |-> <<>>]

\* line 18-20: the suffixes in force
Extensions == IF media_extensions.given THEN media_extensions.list ELSE DefaultExtensions

\* the process ends because exc reached main (or the interpreter)
Terminate(exc, msg, err) ==
    /\ pc' = "exited"
    /\ exit_status' = <<ExitStatusOf(exc)>>
    /\ printed' = MainMessage(exc, msg)
    /\ error' = err

\* the state a run starts in, the disk apart
RunStart ==
    /\ pc = "start"
    /\ link_id = <<>>
    /\ query = <<>>
    /\ meta = <<>>
    /\ bundle_name = <<>>
    /\ archive = <<>>
    /\ idx = 0
    /\ total_extracted = 0
    /\ written = <<>>
    /\ stages = <<>>
    /\ exit_status = <<>>
    /\ printed = ""
    /\ error = "none"
    /\ failed_at = 0

InitCommon ==
    /\ RunStart
    /\ run = 1
    /\ files = NoFiles
    /\ dirs \in {{<<>>, Cwd}, {<<>>, Cwd, OutputRoot}}
    /\ prev_archive = <<>>
    /\ prev_files = NoFiles
    /\ prev_count = 0

Init ==
    /\ link_url \in Urls
    /\ media_extensions \in ExtArgs
    /\ InitCommon

\* lines 104-126 and 18-35: the placeholder check, the output folder, the
\* parse of the link
Main ==
    /\ pc = "start"
    /\ IF Contains(link_url, Placeholder)
       THEN /\ Terminate("SystemExit", "Error: You need to replace the placeholder", "placeholder")
            /\ UNCHANGED <<dirs, link_id, query, stages>>
       ELSE /\ dirs' = dirs \cup {OutputRoot}
            /\ stages' = Append(stages, "parse")
            /\ IF ~LinkFormatOk(link_url)
               THEN /\ Terminate("ValueError", "Invalid Koofr link format", "invalid_link")
                    /\ UNCHANGED <<link_id, query>>
               ELSE /\ link_id' = LinkIdOf(link_url)
                    /\ query' = QueryOf(link_url)
                    /\ pc' = "fetch_metadata"
                    /\ UNCHANGED <<exit_status, printed, error>>
    /\ UNCHANGED <<link_url, media_extensions, run, meta, bundle_name, archive, idx,
                   total_extracted, files, written, failed_at,
                   prev_archive, prev_files, prev_count>>

\* lines 37-61: one GET of the metadata endpoint
FetchMetadata ==
    /\ pc = "fetch_metadata"
    /\ \E r \in MetaResponses :
        /\ meta' = <<r>>
        /\ stages' = Append(stages, "metadata")
        /\ IF r.status = 0
           THEN /\ Terminate("SystemExit", "Error fetching metadata", "metadata_network")
                /\ UNCHANGED bundle_name
           ELSE IF r.status >= 400
           THEN /\ Terminate("SystemExit",
                             IF r.status = 404 THEN "The share link is invalid, expired, or has been removed."
                             ELSE IF r.status = 403 THEN "Access denied"
                             ELSE "HTTP Error", "metadata_http")
                /\ UNCHANGED bundle_name
           ELSE IF ~r.json_ok
           THEN /\ Terminate("JSONDecodeError", "", "metadata_json")
                /\ UNCHANGED bundle_name
           ELSE IF Falsy(BundleNameOf(r))
           THEN /\ Terminate("SystemExit", "No bundle found", "empty_bundle")
                /\ bundle_name' = BundleNameOf(r)
           ELSE /\ bundle_name' = BundleNameOf(r)
                /\ pc' = "download"
                /\ UNCHANGED <<exit_status, printed, error>>
    /\ UNCHANGED <<link_url, media_extensions, run, link_id, query, archive, idx,
                   total_extracted, files, dirs, written, failed_at,
                   prev_archive, prev_files, prev_count>>

\* lines 63-79: one GET of the content endpoint (the body is not read yet:
\* stream=True)
Download ==
    /\ pc = "download"
    /\ \E status \in DownloadResponses :
        /\ stages' = Append(stages, "download")
        /\ IF status # 200
           THEN Terminate("SystemExit", "Download failed", "download")
           ELSE /\ pc' = "open_archive"
                /\ UNCHANGED <<exit_status, printed, error>>
    /\ UNCHANGED <<link_url, media_extensions, run, link_id, query, meta, bundle_name,
                   archive, idx, total_extracted, files, dirs, written, failed_at,
                   prev_archive, prev_files, prev_count>>

\* lines 80-81: the body is read (resp.content) and opened as a ZIP archive.
\* The server delivers the same archive to every run.
OpenArchive ==
    /\ pc = "open_archive"
    /\ stages' = Append(stages, "extraction")
    /\ \/ /\ Terminate("ChunkedEncodingError", "", "download_body")
          /\ UNCHANGED <<archive, idx>>
       \/ /\ IF HandledAsCorrupt("BadZipFile")
             THEN Terminate("SystemExit", "Downloaded file is not a valid ZIP", "corrupt_archive")
             ELSE Terminate("BadZipFile", "", "corrupt_archive")
          /\ UNCHANGED <<archive, idx>>
       \/ \E a \in Archives :
            /\ run > 1 => a = prev_archive
            /\ archive' = a
            /\ idx' = 1
            /\ pc' = "extract"
            /\ UNCHANGED <<exit_status, printed, error>>
    /\ UNCHANGED <<link_url, media_extensions, run, link_id, query, meta, bundle_name,
                   total_extracted, files, dirs, written, failed_at,
                   prev_archive, prev_files, prev_count>>

\* the exception a fault raises
ExceptionOf(f) ==
    IF f \in {"entry_header", "entry_crc"} THEN "BadZipFile"
    ELSE IF f = "entry_data" THEN "zlib.error"
    ELSE "OSError"

\* the kind of failure a fault is
ErrorOf(f) ==
    IF f \in {"entry_header", "entry_crc"} THEN "corrupt_entry"
    ELSE IF f = "entry_data" THEN "entry_data"
    ELSE "write"

\* the fault happens after open(extract_path, 'wb') has run (line 91-92)
AfterOpen(f) == f \in {"entry_crc", "entry_data", "write"}

\* variant: a fault removes what was extracted
FilesAfterFault_Rollback(fs, loc, f) == [l \in {} |-> <<>>]

\* lines 89-92, the disk after a fault: nothing is undone; the destination
\* has been created or truncated when the fault came after the open
FilesAfterFault(fs, loc, f) == IF AfterOpen(f) THEN OpenForWrite(fs, loc) ELSE fs

\* lines 82-98: one pass of the loop over z.infolist()
ExtractEntry ==
    /\ pc = "extract"
    /\ idx <= Len(archive)
    /\ LET name == archive[idx]
           path == ExtractPath(name)
           loc  == Resolve(path)
       IN  IF IsDir(name) \/ ~Matches(name, Extensions)
           THEN /\ idx' = idx + 1
                /\ UNCHANGED <<pc, exit_status, printed, error, failed_at,
                               files, dirs, written, total_extracted>>
           ELSE \E f \in Faults :
                  IF f = "none"
                  THEN /\ dirs' = Makedirs(Dirname(path), dirs)
                       /\ files' = WriteAll(OpenForWrite(files, loc), loc, idx)
                       /\ written' = Append(written, idx)
                       /\ total_extracted' = Increment(total_extracted)
                       /\ idx' = idx + 1
                       /\ UNCHANGED <<pc, exit_status, printed, error, failed_at>>
                  ELSE /\ dirs' = IF f = "makedirs" THEN dirs ELSE Makedirs(Dirname(path), dirs)
                       /\ files' = FilesAfterFault(files, loc, f)
                       /\ failed_at' = idx
                       /\ IF HandledAsCorrupt(ExceptionOf(f))
                          THEN Terminate("SystemExit", "Downloaded file is not a valid ZIP", ErrorOf(f))
                          ELSE Terminate(ExceptionOf(f), "", ErrorOf(f))
                       /\ UNCHANGED <<idx, written, total_extracted>>
    /\ UNCHANGED <<link_url, media_extensions, run, link_id, query, meta, bundle_name,
                   archive, stages, prev_archive, prev_files, prev_count>>

\* line 100 and the end of the script: the count is reported, the function
\* returns and the process ends with status 0
Finish ==
    /\ pc = "extract"
    /\ idx > Len(archive)
    /\ pc' = "exited"
    /\ exit_status' = <<0>>
    /\ printed' = "Done!"
    /\ UNCHANGED <<link_url, media_extensions, run, link_id, query, meta, bundle_name,
                   archive, idx, total_extracted, files, dirs, written, stages, error,
                   failed_at, prev_archive, prev_files, prev_count>>

\* lines 127-128: the user interrupts the run
Interrupt ==
    /\ pc \in {"fetch_metadata", "download", "open_archive", "extract"}
    /\ Terminate("KeyboardInterrupt", "", "interrupt")
    /\ UNCHANGED <<link_url, media_extensions, run, link_id, query, meta, bundle_name,
                   archive, idx, total_extracted, files, dirs, written, stages,
                   failed_at, prev_archive, prev_files, prev_count>>

\* the script is run again, with the same link and arguments, on the disk
\* the completed run left
RunAgain ==
    /\ pc = "exited"
    /\ printed = "Done!"
    /\ run < MaxRuns
    /\ run' = run + 1
    /\ prev_archive' = archive
    /\ prev_files' = files
    /\ prev_count' = total_extracted
    /\ pc' = "start"
    /\ link_id' = <<>>
    /\ query' = <<>>
    /\ meta' = <<>>
    /\ bundle_name' = <<>>
    /\ archive' = <<>>
    /\ idx' = 0
    /\ total_extracted' = 0
    /\ written' = <<>>
    /\ stages' = <<>>
    /\ exit_status' = <<>>
    /\ printed' = ""
    /\ error' = "none"
    /\ failed_at' = 0
    /\ UNCHANGED <<link_url, media_extensions, files, dirs>>

Next ==
    \/ Main
    \/ FetchMetadata
    \/ Download
    \/ OpenArchive
    \/ ExtractEntry
    \/ Finish
    \/ Interrupt
    \/ RunAgain

Spec == Init /\ [][Next]_vars

\* ------------------------------------------------ the link-parsing check
\* share URLs assembled from a host part and up to MaxPieces pieces
UrlBases == {<<"h", "t", "t", "p", "s", ":", "/", "/", "h">>, <<"h">>}
UrlPieces == {LinksMarker, <<"a", "b">>, <<"?">>, <<"/">>, <<";">>, <<"#">>, <<"l", "i", "n", "k", "s">>}
ParseUrls ==
    {b \o Concat(ps) : b \in UrlBases, ps \in UNION {[1..n -> UrlPieces] : n \in 0..MaxPieces}}

InitParse ==
    /\ link_url \in ParseUrls
    /\ media_extensions = [given |-> FALSE, list |-> <<>>]
    /\ InitCommon

SpecParse == InitParse /\ [][Main]_vars

\* ================================================================ claims
Range(s) == {s[j] : j \in 1..Len(s)}

IsPrefix(s, t) == Len(s) <= Len(t) /\ SubSeq(t, 1, Len(s)) = s

StageOrder == <<"parse", "metadata", "download", "extraction">>

CorruptMessage == "Downloaded file is not a valid ZIP"

\* the files on disk when the current run started
StartFiles == IF run = 1 THEN NoFiles ELSE prev_files

\* the location entry i of the archive is extracted to
Dest(i) == Resolve(ExtractPath(archive[i]))

\* the locations the entries written by this run went to
WrittenLocs == {Dest(written[j]) : j \in 1..Len(written)}

\* name ends with suffix, character by character
HasSuffix(name, suffix) ==
    /\ Len(suffix) <= Len(name)
    /\ \A j \in 1..Len(suffix) : name[Len(name) - Len(suffix) + j] = suffix[j]

\* entry i is a file entry whose lowercased name ends with a configured suffix
Selected(i) ==
    /\ archive[i][Len(archive[i])] # "/"
    /\ LET lowered == Lower(archive[i])
       IN  \E k \in 1..Len(Extensions) : HasSuffix(lowered, Extensions[k])

\* ---------------------------------------------------------------- C1
\* C1: every unrecoverable error (invalid link, metadata HTTP or network
\* failure, missing or empty file.name, download failure including a failure
\* while the body is read, bytes that are no archive) ends the process with
\* a non-zero exit status.
C1_ErrorsExitNonZero ==
    (pc = "exited" /\ error \in {"invalid_link", "metadata_http", "metadata_network",
                                 "empty_bundle", "download", "download_body",
                                 "corrupt_archive"})
        => exit_status # <<0>>

\* ---------------------------------------------------------------- C2
\* C2: the stages of a run are entered in the order parse, metadata GET,
\* download GET, extraction, each at most once; the download GET is issued
\* only after the link was parsed (its path holds the marker, which is
\* checked in the states where the download GET is the last stage entered;
\* the link does not change afterwards) and the metadata GET returned status 200
\* with a non-empty file.name; after a metadata failure or a missing or empty
\* file.name no download is attempted and nothing is written.
C2_StagesInOrder ==
    /\ IsPrefix(stages, StageOrder)
    /\ stages = SubSeq(StageOrder, 1, 3) => Find(UrlParse(link_url).path, LinksMarker, 1) # 0
    /\ "download" \in Range(stages) =>
          /\ query # <<>>
          /\ meta # <<>>
          /\ meta[1].status = 200
          /\ meta[1].json_ok /\ meta[1].has_file /\ meta[1].has_name
          /\ meta[1].name # ""
    /\ (meta # <<>> /\ (meta[1].status # 200 \/ ~meta[1].json_ok \/ ~meta[1].has_file
                        \/ ~meta[1].has_name \/ meta[1].name = "")) =>
          /\ "download" \notin Range(stages)
          /\ "extraction" \notin Range(stages)
          /\ written = <<>>
          /\ files = StartFiles
          /\ pc = "exited"

\* C2 witness: a run that went through all four stages and wrote an entry
C2_Witness == stages = StageOrder /\ written # <<>> /\ pc = "extract"

\* ---------------------------------------------------------------- C3
\* C3: the entries written are file entries whose lowercased name ends with
\* a configured suffix, in archive order, and after an extraction that ran
\* to its end they are exactly those entries, each on disk with its content,
\* and the count is their number; for the archive a.jpg, b.txt, sub/c.png,
\* sub/ with the default suffixes exactly a.jpg and sub/c.png are written and
\* the count is 2.
C3_ExactlyMatchingEntries ==
    /\ \A j \in 1..Len(written) : written[j] \in 1..Len(archive) /\ Selected(written[j])
    /\ \A j \in 1..(Len(written) - 1) : written[j] < written[j + 1]
    /\ printed = "Done!" =>
          /\ Range(written) = {i \in 1..Len(archive) : Selected(i)}
          /\ total_extracted = Cardinality({i \in 1..Len(archive) : Selected(i)})
          /\ \A i \in Range(written) : Dest(i) \in DOMAIN files
          /\ (archive = ScenarioArchive /\ ~media_extensions.given) =>
                /\ written = <<1, 3>>
                /\ total_extracted = 2
                /\ WrittenLocs = {Append(OutputRoot, NameA),
                                  OutputRoot \o <<SubSeq(NameC, 1, 3), SubSeq(NameC, 5, 9)>>}
                /\ run = 1 => DOMAIN files = WrittenLocs

\* C3 witness: the round-trip scenario extracted to its end
C3_Witness ==
    /\ printed = "Done!"
    /\ archive = ScenarioArchive
    /\ ~media_extensions.given
    /\ total_extracted = 2

\* ---------------------------------------------------------------- C4
\* C4 as stated: the reported count equals the number of files the run wrote
\* to disk, for every archive.
C4_CountEqualsFilesWritten ==
    printed = "Done!" => total_extracted = Cardinality(WrittenLocs)

\* C4 as amended: the reported count is the number of entries written, one
\* per matching file entry; it is never less than the number of files the
\* run wrote, and equals it exactly when no two written entries resolve to
\* the same destination; every destination holds the content of the last
\* entry written to it.
C4_CountEqualsEntriesWritten ==
    printed = "Done!" =>
        /\ total_extracted = Len(written)
        /\ total_extracted >= Cardinality(WrittenLocs)
        /\ (total_extracted = Cardinality(WrittenLocs)) <=>
              (\A i, j \in Range(written) : Dest(i) = Dest(j) => i = j)
        /\ \A l \in WrittenLocs :
              /\ l \in DOMAIN files
              /\ \E i \in Range(written) :
                    /\ Dest(i) = l
                    /\ files[l] = <<i>>
                    /\ \A j \in Range(written) : Dest(j) = l => j <= i
        /\ run = 1 => DOMAIN files = WrittenLocs

\* C4 witness: two entries written to one destination
C4_Witness ==
    /\ printed = "Done!"
    /\ total_extracted = 2
    /\ Cardinality(WrittenLocs) = 1

\* ---------------------------------------------------------------- C5
\* C5: a file entry is extracted whenever its name ends with a configured
\* suffix when letter case is ignored on both sides.
C5_CaseInsensitiveBothSides ==
    printed = "Done!" =>
        \A i \in 1..Len(archive) :
            (/\ archive[i][Len(archive[i])] # "/"
             /\ \E k \in 1..Len(Extensions) :
                    HasSuffix(Lower(archive[i]), Lower(Extensions[k])))
                => i \in Range(written)

C7_Idempotent ==
    (run > 1 /\ printed = "Done!") =>
        /\ archive = prev_archive
        /\ files = prev_files
        /\ DOMAIN files = DOMAIN prev_files
        /\ total_extracted = prev_count

\* C7 witness: a second run that overwrote what the first one wrote
C7_Witness == run = 2 /\ printed = "Done!" /\ total_extracted >= 2

\* ---------------------------------------------------------------- C9
\* C9: every file a run writes lies inside the output directory tree.
C9_WritesStayInsideOutput ==
    \A l \in DOMAIN files : Inside(l, OutputRoot)

\* ---------------------------------------------------------------- C10
\* the step in which the extraction of an entry fails
EntryFails == pc = "extract" /\ failed_at = 0 /\ failed_at' # 0

\* C10 as stated: once the extraction of entry k fails, nothing more is
\* written or counted, no final count is reported, and every file written
\* for an earlier entry is on disk unchanged.
C10_FailureKeepsEarlierFiles ==
    [][ /\ EntryFails =>
            /\ pc' = "exited"
            /\ written' = written
            /\ total_extracted' = total_extracted
            /\ printed' # "Done!"
            /\ \A l \in WrittenLocs : l \in DOMAIN files' /\ files'[l] = files[l]
        /\ failed_at # 0 => UNCHANGED <<files, written, total_extracted, printed>>
      ]_vars

\* C10 as amended: once the extraction of entry k fails, nothing more is
\* written or counted, no final count is reported, and every file written
\* for an earlier entry is still on disk, unchanged unless it is the
\* destination of entry k itself, which is then left as it was or empty.
C10_FailureKeepsOtherFiles ==
    [][ /\ EntryFails =>
            /\ pc' = "exited"
            /\ written' = written
            /\ total_extracted' = total_extracted
            /\ printed' # "Done!"
            /\ \A l \in WrittenLocs :
                  /\ l \in DOMAIN files'
                  /\ l # Dest(idx) => files'[l] = files[l]
                  /\ l = Dest(idx) => files'[l] \in {files[l], <<>>}
        /\ failed_at # 0 => UNCHANGED <<files, written, total_extracted, printed>>
      ]_vars

\* C10 witness: an entry failed to be written after another one was written
C10_Witness ==
    /\ pc = "exited"
    /\ error = "write"
    /\ failed_at # 0
    /\ written # <<>>

\* ---------------------------------------------------------------- C8
\* the text of the path after its first '/links/' marker
AfterMarker(p) == SubSeq(p, Find(p, LinksMarker, 1) + Len(LinksMarker), Len(p))

\* C8 as stated: when the path of the URL holds the marker, the identifier
\* is the whole text of the path after the marker, cut at the first '?';
\* when it does not, parsing fails with the invalid-link error before any
\* request.
C8_IdIsWholeRest ==
    pc # "start" =>
        LET p == UrlParse(link_url).path
        IN  IF Find(p, LinksMarker, 1) = 0
            THEN error = "invalid_link" /\ pc = "exited" /\ stages = <<"parse">> /\ meta = <<>>
            ELSE pc = "fetch_metadata" /\ link_id = Before(AfterMarker(p), "?")

\* C8 as amended: when the path of the URL holds the marker, the identifier
\* is the text of the path after the first marker up to the next marker, or
\* to the end of the path when there is no further marker (the path ends
\* before the first '?' or '#' of the URL), so for a URL that reads
\* ...'/links/'<id> or ...'/links/'<id>'?'... with a single marker and no
\* '#' or ';' the identifier is exactly <id>; when the path holds no marker,
\* parsing fails with the invalid-link error before any request.
C8_IdUpToNextMarker ==
    pc # "start" =>
        LET p == UrlParse(link_url).path
            i == Find(link_url, LinksMarker, 1)
            q == Find(link_url, <<"?">>, 1)
        IN  /\ IF Find(p, LinksMarker, 1) = 0
               THEN error = "invalid_link" /\ pc = "exited" /\ stages = <<"parse">> /\ meta = <<>>
               ELSE /\ pc = "fetch_metadata"
                    /\ error = "none"
                    /\ stages = <<"parse">>
                    /\ link_id = LET rest == AfterMarker(p)
                                     j    == Find(rest, LinksMarker, 1)
                                 IN  IF j = 0 THEN rest ELSE SubSeq(rest, 1, j - 1)
                    /\ ~Contains(link_id, <<"?">>)
            /\ (/\ i # 0
                /\ q = 0 \/ q >= i + Len(LinksMarker)
                /\ Find(link_url, LinksMarker, i + 1) = 0
                /\ ~Contains(link_url, <<"#">>)
                /\ ~Contains(link_url, <<";">>))
                  => link_id = SubSeq(link_url, i + Len(LinksMarker),
                                      IF q = 0 THEN Len(link_url) ELSE q - 1)

\* C8 witness: a link with an identifier followed by '?' was parsed
C8_Witness ==
    /\ pc = "fetch_metadata"
    /\ link_id = <<"a", "b">>
    /\ Contains(link_url, <<"?">>)

====
